---- MODULE Spec2Model ----
(***************************************************************************)
(* Model of the invoice field extractor (src/extractor.py) and of the      *)
(* calling layer's login gate and balance validation (src/app.py).         *)
(*                                                                         *)
(* Text is a sequence of one-character strings.  The literal labels the    *)
(* recognizers anchor on ("SALDO ANTERIOR", "LEITURA ATUAL", ...) and the  *)
(* DD/MM/YYYY date tokens are single symbols of the text alphabet, so that *)
(* bounded texts can hold several of them.                                 *)
(***************************************************************************)
EXTENDS Integers, Sequences, FiniteSets, TLC

VARIABLES
    pc,                 \* position of the run being modelled
    raw,                \* argument of normalize_kwh / normalize_brl
    kwh,                \* result of normalize_kwh(raw)
    brl,                \* result of normalize_brl(raw)
    num1, num2, sep,    \* text after a label: separator, two adjacent numbers
    saldo,              \* result of extract_kwh_after_label on that text
    full_text,          \* document text handed to the orchestrator
    fields,             \* the record (dict) of extract_fields_from_pdf / the row
    allowed_email, allowed_password,   \* os.environ APP_LOGIN_*
    logged_in,          \* st.session_state["logged_in"]
    email, password,    \* the text inputs of the last "Entrar" submission
    section             \* what the last script run rendered

normVars  == <<raw, kwh, brl>>
labelVars == <<num1, num2, sep, saldo>>
extVars   == <<full_text, fields>>
loginVars == <<allowed_email, allowed_password, logged_in, email, password, section>>
vars == <<pc, normVars, labelVars, extVars, loginVars>>

\* Python values: None, and a present value v (a str, an int, a float).
None == [none |-> TRUE]
Some(v) == [val |-> v]
IsSome(x) == "val" \in DOMAIN x
\* An exception that reaches the caller.
Raise == [raise |-> "ValueError"]

(***************************************************************************)
(* Bounds of the model.                                                    *)
(***************************************************************************)
\* longest argument of the value normalizers
MaxRaw == 5
\* most digits of a number written after a label
MaxNum == 4
\* longest document text handed to the orchestrator
MaxDoc == 5
\* most tokens of a document with reading dates
MaxTokens == 6
\* largest quantity of a record handed to the validation
MaxKwh == 4

(***************************************************************************)
(* Python string primitives.                                               *)
(***************************************************************************)
Digits == {"0", "1", "2", "3", "4", "5", "6", "7", "8", "9"}

\* str.isspace for the characters used: Python's strip() and the regex \s
Whitespace == {" ", "\t", "\n"}

DigitVal(c) ==
    CASE c = "0" -> 0 [] c = "1" -> 1 [] c = "2" -> 2 [] c = "3" -> 3
      [] c = "4" -> 4 [] c = "5" -> 5 [] c = "6" -> 6 [] c = "7" -> 7
      [] c = "8" -> 8 [] c = "9" -> 9

\* int(s) for a string of decimal digits
RECURSIVE PyInt(_)
PyInt(s) ==
    IF Len(s) = 0 THEN 0
    ELSE 10 * PyInt(SubSeq(s, 1, Len(s) - 1)) + DigitVal(s[Len(s)])

\* s.replace(c, "") for a single character c
RemoveChar(s, c) == SelectSeq(s, LAMBDA x : x # c)

\* re.sub(r"\D", "", s)
OnlyDigits(s) == SelectSeq(s, LAMBDA x : x \in Digits)

RECURSIVE LStrip(_)
LStrip(s) ==
    IF Len(s) > 0 /\ s[1] \in Whitespace THEN LStrip(Tail(s)) ELSE s

RECURSIVE RStrip(_)
RStrip(s) ==
    IF Len(s) > 0 /\ s[Len(s)] \in Whitespace
    THEN RStrip(SubSeq(s, 1, Len(s) - 1)) ELSE s

\* s.strip()
Strip(s) == LStrip(RStrip(s))

\* s.split(c)[0]: the text before the first c (all of s when c is absent)
RECURSIVE SplitFirst(_, _)
SplitFirst(s, c) ==
    IF Len(s) = 0 \/ s[1] = c THEN <<>>
    ELSE <<s[1]>> \o SplitFirst(Tail(s), c)

\* s.replace("R$", ""): left to right, non-overlapping
RECURSIVE RemoveRS(_)
RemoveRS(s) ==
    IF Len(s) = 0 THEN <<>>
    ELSE IF Len(s) >= 2 /\ s[1] = "R" /\ s[2] = "$" THEN RemoveRS(SubSeq(s, 3, Len(s)))
    ELSE <<s[1]>> \o RemoveRS(Tail(s))

\* s.replace(a, b) for single characters
ReplaceChar(s, a, b) == [i \in 1..Len(s) |-> IF s[i] = a THEN b ELSE s[i]]

Count(s, c) == Len(SelectSeq(s, LAMBDA x : x = c))

\* all sequences over S of length at most n
RECURSIVE SeqsUpTo(_, _)
SeqsUpTo(S, n) ==
    IF n = 0 THEN {<<>>}
    ELSE LET P == SeqsUpTo(S, n - 1)
         IN  P \cup {Append(p, c) : p \in {q \in P : Len(q) = n - 1}, c \in S}

(***************************************************************************)
(* Value normalizers.  The argument is None or Some(text).                 *)
(***************************************************************************)
\* "if not raw: return None"
Falsy(r) == r = None \/ r.val = <<>>

\* a variant that drops the comma but keeps the decimals ("5,00" -> 500)
normalize_kwh_keep_decimals(r) ==
    IF Falsy(r) THEN None
    ELSE LET s4 == OnlyDigits(RemoveChar(Strip(r.val), " "))
         IN  IF s4 # <<>> THEN Some(PyInt(s4)) ELSE None

normalize_kwh(r) ==
    IF Falsy(r) THEN None
    ELSE LET s1 == RemoveChar(Strip(r.val), " ")
             s2 == IF Count(s1, ",") > 0 THEN SplitFirst(s1, ",") ELSE s1
             s3 == RemoveChar(s2, ".")
             s4 == OnlyDigits(s3)
         IN  IF s4 # <<>> THEN Some(PyInt(s4)) ELSE None

\* float(s) for s made of digits and "."; raises ValueError on any other shape.
\* The float is kept as its digits and the number of digits after the point.
PyFloat(s) ==
    IF Count(s, ".") > 1 \/ OnlyDigits(s) = <<>>
    THEN Raise
    ELSE LET ip == SplitFirst(s, ".")
             fp == IF Count(s, ".") = 0 THEN <<>> ELSE SubSeq(s, Len(ip) + 2, Len(s))
         IN  Some([num |-> PyInt(ip \o fp), scale |-> Len(fp)])

\* a variant without the except clause: the ValueError reaches the caller
TryFloatUncaught(s) == PyFloat(s)

\* "try: return float(s) / except ValueError: return None"
TryFloat(s) == IF PyFloat(s) = Raise THEN None ELSE PyFloat(s)

normalize_brl(r) ==
    IF Falsy(r) THEN None
    ELSE LET s1 == Strip(RemoveChar(RemoveRS(r.val), " "))
             s2 == SelectSeq(s1, LAMBDA x : x \in Digits \cup {".", ","})
             s3 == ReplaceChar(RemoveChar(s2, "."), ",", ".")
         IN  IF s2 = <<>> THEN None ELSE TryFloat(s3)

(***************************************************************************)
(* RE_NUM_BR = (?:\d{1,3}(?:\.\d{3})+|\d+)(?:,\d{2})?  matched at the      *)
(* start of s, which begins with a digit.                                  *)
(***************************************************************************)
\* length of the run of characters of S at the start of s
RECURSIVE RunLen(_, _)
RunLen(s, S) ==
    IF Len(s) > 0 /\ s[1] \in S THEN 1 + RunLen(Tail(s), S) ELSE 0

\* s[i..] starts with "." and three digits
GroupAt(s, i) ==
    /\ i + 3 <= Len(s)
    /\ s[i] = "."
    /\ \A k \in 1..3 : s[i + k] \in Digits

\* number of consecutive ".ddd" groups from position i: (?:\.\d{3})+ is greedy
RECURSIVE GroupsFrom(_, _)
GroupsFrom(s, i) == IF GroupAt(s, i) THEN 1 + GroupsFrom(s, i + 4) ELSE 0

\* s[i..] starts with "," and two digits: (?:,\d{2})?
DecimalsAt(s, i) ==
    /\ i + 2 <= Len(s)
    /\ s[i] = ","
    /\ s[i + 1] \in Digits
    /\ s[i + 2] \in Digits

\* position where the match of RE_NUM_BR at the start of s ends.  The first
\* alternative needs a digit run of at most three followed by a group: a longer
\* run leaves a digit where the "." must be, however \d{1,3} backtracks.
NumBrEnd(s) ==
    LET d == RunLen(s, Digits)
        g == IF d <= 3 THEN GroupsFrom(s, d + 1) ELSE 0
        e == IF g > 0 THEN d + 4 * g ELSE d
    IN  IF DecimalsAt(s, e + 1) THEN e + 3 ELSE e

(***************************************************************************)
(* extract_kwh_after_label: the label is one symbol of the text.           *)
(***************************************************************************)
\* first position at or after i that is not in S
RECURSIVE SkipRun(_, _, _)
SkipRun(t, i, S) == IF i <= Len(t) /\ t[i] \in S THEN SkipRun(t, i + 1, S) ELSE i

\* where "\s*[:.]*\s*" ends after the label at position i
AfterSeparator(t, i) ==
    SkipRun(t, SkipRun(t, SkipRun(t, i + 1, Whitespace), {":", "."}), Whitespace)

\* the pattern  label\s*[:.]*\s*([0-9][0-9\.\,\s]*)  matches with the label at i
LabelMatchAt(t, i, label) ==
    /\ t[i] = label
    /\ AfterSeparator(t, i) <= Len(t)
    /\ t[AfterSeparator(t, i)] \in Digits

\* group(1): the greedy run of digits, ".", "," and whitespace
TailAt(t, i) ==
    LET b == AfterSeparator(t, i)
        e == SkipRun(t, b, Digits \cup {".", ","} \cup Whitespace)
    IN  SubSeq(t, b, e - 1)

extract_kwh_after_label(t, label) ==
    LET hits == {i \in 1..Len(t) : LabelMatchAt(t, i, label)}
    IN  IF hits = {} THEN None
        ELSE LET i == CHOOSE h \in hits : \A o \in hits : h <= o
                 tail_no_spaces == RemoveChar(TailAt(t, i), " ")
                 m2 == SubSeq(tail_no_spaces, 1, NumBrEnd(tail_no_spaces))
             IN  normalize_kwh(Some(m2))

(***************************************************************************)
(* Reading dates.  A DD/MM/YYYY date is one symbol; RE_DATE's \b on either *)
(* side holds at the ends of the text and next to a non-word character.    *)
(***************************************************************************)
Dates == {"05/11/2025", "08/12/2025"}

NonWord == Whitespace \cup {":", ".", ",", "$"}

\* re.sub(r"[ \t]+", " ", s): every run of spaces and tabs becomes one space
RECURSIVE CollapseBlanks(_)
CollapseBlanks(s) ==
    IF Len(s) = 0 THEN <<>>
    ELSE IF s[1] \in {" ", "\t"}
         THEN <<" ">> \o CollapseBlanks(SubSeq(s, 1 + RunLen(s, {" ", "\t"}), Len(s)))
         ELSE <<s[1]>> \o CollapseBlanks(Tail(s))

clean_spaces(s) == Strip(CollapseBlanks(s))

\* RE_DATE matches the symbol at j
DateAt(t, j) ==
    /\ j \in 1..Len(t)
    /\ t[j] \in Dates
    /\ j = 1 \/ t[j - 1] \in NonWord
    /\ j = Len(t) \/ t[j + 1] \in NonWord

\* label.*?(RE_DATE) with the label at i and the date at j: "." stops at "\n"
DateAfterLabel(t, i, j, label) ==
    /\ t[i] = label
    /\ j > i
    /\ DateAt(t, j)
    /\ \A k \in (i + 1)..(j - 1) : t[k] # "\n"

Min(S) == CHOOSE x \in S : \A y \in S : x <= y

extract_first_date_after(label, t) ==
    LET starts == {i \in 1..Len(t) : \E j \in 1..Len(t) : DateAfterLabel(t, i, j, label)}
    IN  IF starts = {} THEN None
        ELSE LET i == Min(starts)
                 j == Min({k \in 1..Len(t) : DateAfterLabel(t, i, k, label)})
             IN  Some(t[j])

\* (RE_DATE)\s+(RE_DATE)\s+\d+\s+(RE_DATE) starting at i: the position of the
\* second date, or 0 when the pattern does not match there
BlockSecond(t, i) ==
    LET a == SkipRun(t, i + 1, Whitespace)
        b == SkipRun(t, a + 1, Whitespace)
        c == SkipRun(t, b, Digits)
        d == SkipRun(t, c, Whitespace)
    IN  IF /\ DateAt(t, i)
           /\ a > i + 1 /\ DateAt(t, a)
           /\ b > a + 1
           /\ c > b
           /\ d > c /\ DateAt(t, d)
        THEN a ELSE 0

extract_leituras_por_bloco(t) ==
    LET starts == {i \in 1..Len(t) : BlockSecond(t, i) > 0}
    IN  IF starts = {} THEN <<None, None>>
        ELSE <<Some(t[Min(starts)]), Some(t[BlockSecond(t, Min(starts))])>>

(***************************************************************************)
(* extract_fields_from_pdf: the reading dates and the net-metering quartet *)
(* of the record.  The other fields come from recognizers that read the    *)
(* same text and write nothing these read.                                 *)
(***************************************************************************)
K_LEIT_ANT == "LEITURA ANTERIOR"
K_LEIT_ATU == "LEITURA ATUAL"
K_SALDO_ANT == "SALDO ANTERIOR (kWh)"
K_INJ == "INJETADO (kWh)"
K_COMP == "COMPENSADO (kWh)"
K_SALDO_ATU == "SALDO ATUAL (kWh)"
K_CALC == "SALDO ATUAL (CALC)"
K_CHECK == "CHECK SALDO"
K_DIF == "DIF (kWh)"

Quartet == {K_SALDO_ANT, K_INJ, K_COMP, K_SALDO_ATU}
RecordKeys == {K_LEIT_ANT, K_LEIT_ATU} \cup Quartet

\* the label each quartet field is searched by
LabelOf(k) ==
    CASE k = K_SALDO_ANT -> "SALDO ANTERIOR"
      [] k = K_INJ -> "INJETADO"
      [] k = K_COMP -> "COMPENSADO"
      [] k = K_SALDO_ATU -> "SALDO ATUAL"

\* Python's "a or b" for a that is None or a non-empty string
PyOr(a, b) == IF a = None THEN b ELSE a

\* a variant in which the block pattern wins over the label
ResolveLeituraBlockFirst(found, fallback) == PyOr(fallback, found)

\* "leitura_anterior = leitura_anterior or la_fb"
ResolveLeitura(found, fallback) == PyOr(found, fallback)

\* a variant that never fills in the zeros
ZeroFillNever(q) == q

\* "if saldo_anterior is None and ... and saldo_atual is None: ... = 0, 0, 0, 0"
ZeroFill(q) ==
    IF \A k \in Quartet : q[k] = None THEN [k \in Quartet |-> Some(0)] ELSE q

extract_fields_from_pdf(text) ==
    LET tn == clean_spaces(text)
        la == extract_first_date_after("LEITURA ANTERIOR", tn)
        lat == extract_first_date_after("LEITURA ATUAL", tn)
        fb == extract_leituras_por_bloco(tn)
        useFb == la = None \/ lat = None
        q == ZeroFill([k \in Quartet |-> extract_kwh_after_label(text, LabelOf(k))])
    IN  [k \in RecordKeys |->
            IF k = K_LEIT_ANT THEN (IF useFb THEN ResolveLeitura(la, fb[1]) ELSE la)
            ELSE IF k = K_LEIT_ATU THEN (IF useFb THEN ResolveLeitura(lat, fb[2]) ELSE lat)
            ELSE q[k]]

(***************************************************************************)
(* The balance validation of the calling layer (app.py).                   *)
(***************************************************************************)
\* "int(fields.get(k) or 0)": None and 0 are falsy
IntOrZero(x) == IF x = None \/ x.val = 0 THEN 0 ELSE x.val

\* a variant whose difference is calculated minus extracted
BalanceSwapped(f) ==
    LET calc == IntOrZero(f[K_SALDO_ANT]) + IntOrZero(f[K_INJ]) - IntOrZero(f[K_COMP])
        atual == IntOrZero(f[K_SALDO_ATU])
    IN  (K_CALC :> Some(calc)) @@ (K_DIF :> Some(calc - atual))
        @@ (K_CHECK :> IF atual = calc THEN "OK" ELSE "DIVERGENTE")

\* the try block; its except clause runs when int() raises, which needs a
\* value that is neither None nor a number
Balance(f) ==
    LET vals == {IntOrZero(f[k]) : k \in Quartet}
        calc == IntOrZero(f[K_SALDO_ANT]) + IntOrZero(f[K_INJ]) - IntOrZero(f[K_COMP])
        atual == IntOrZero(f[K_SALDO_ATU])
    IN  IF \E v \in vals : v \notin Int
        THEN (K_CALC :> None) @@ (K_DIF :> None) @@ (K_CHECK :> "ERRO")
        ELSE (K_CALC :> Some(calc)) @@ (K_DIF :> Some(atual - calc))
             @@ (K_CHECK :> IF atual = calc THEN "OK" ELSE "DIVERGENTE")

(***************************************************************************)
(* Values of the variables a specification does not use.                   *)
(***************************************************************************)
IdleNorm  == raw = None /\ kwh = None /\ brl = None
IdleLabel == num1 = <<>> /\ num2 = <<>> /\ sep = <<>> /\ saldo = None
IdleExt   == full_text = <<>> /\ fields = None
IdleLogin ==
    /\ allowed_email = <<>> /\ allowed_password = <<>>
    /\ logged_in = FALSE /\ email = <<>> /\ password = <<>> /\ section = "none"

(***************************************************************************)
(* SpecNorm: the value normalizers applied to every bounded text.          *)
(***************************************************************************)
RawAlphabet == {"0", "7", ".", ",", " ", "x", "R", "$"}

RawInputs == {None} \cup {Some(s) : s \in SeqsUpTo(RawAlphabet, MaxRaw)}

InitNorm ==
    /\ pc = "start"
    /\ raw \in RawInputs
    /\ kwh = None /\ brl = None
    /\ IdleLabel /\ IdleExt /\ IdleLogin

CallNormalizeKwh ==
    /\ pc = "start"
    /\ kwh' = normalize_kwh(raw)
    /\ pc' = "kwh_done"
    /\ UNCHANGED <<raw, brl, labelVars, extVars, loginVars>>

CallNormalizeBrl ==
    /\ pc = "kwh_done"
    /\ brl' = normalize_brl(raw)
    /\ pc' = "norm_done"
    /\ UNCHANGED <<raw, kwh, labelVars, extVars, loginVars>>

NextNorm == CallNormalizeKwh \/ CallNormalizeBrl

SpecNorm == InitNorm /\ [][NextNorm]_vars

(***************************************************************************)
(* SpecLabel: extract_kwh_after_label on a label followed by two numbers   *)
(* written one right after the other.                                      *)
(***************************************************************************)
NumDigits == {"1", "2"}

\* a run of digits, or one to three digits followed by groups of "." and
\* three digits
IsIntPart(s) ==
    \/ s # <<>> /\ \A i \in 1..Len(s) : s[i] \in Digits
    \/ LET d == RunLen(s, Digits)
       IN  /\ d \in 1..3
           /\ Len(s) > d
           /\ (Len(s) - d) % 4 = 0
           /\ \A i \in (d + 1)..Len(s) :
                IF (i - d) % 4 = 1 THEN s[i] = "." ELSE s[i] \in Digits

\* a well-formed number: an integer part, optionally "," and two digits
IsNumBr(s) ==
    \/ IsIntPart(s)
    \/ /\ Len(s) >= 4
       /\ s[Len(s) - 2] = ","
       /\ s[Len(s) - 1] \in Digits /\ s[Len(s)] \in Digits
       /\ IsIntPart(SubSeq(s, 1, Len(s) - 3))

\* the well-formed numbers of at most MaxNum digits (and a "." and a ",")
WellFormedNums ==
    {s \in SeqsUpTo(NumDigits \cup {".", ","}, MaxNum + 2) :
        IsNumBr(s) /\ Len(OnlyDigits(s)) <= MaxNum}

Separators == {<<>>, <<":", " ">>}

InitLabel ==
    /\ pc = "start"
    /\ num1 \in WellFormedNums
    /\ num2 \in WellFormedNums
    /\ sep \in Separators
    /\ saldo = None
    /\ IdleNorm /\ IdleExt /\ IdleLogin

CallExtractKwh ==
    /\ pc = "start"
    /\ saldo' = extract_kwh_after_label(<<"SALDO ANTERIOR">> \o sep \o num1 \o num2,
                                        "SALDO ANTERIOR")
    /\ pc' = "label_done"
    /\ UNCHANGED <<num1, num2, sep, normVars, extVars, loginVars>>

NextLabel == CallExtractKwh

SpecLabel == InitLabel /\ [][NextLabel]_vars

(***************************************************************************)
(* Spec: one document of the batch loop of app.py: the orchestrator is     *)
(* called on the document's text, then the balance is validated and the    *)
(* derived fields are appended to the record.                              *)
(***************************************************************************)
DocAlphabet ==
    {"SALDO ANTERIOR", "INJETADO", "COMPENSADO", "SALDO ATUAL", "1", ":", " ", "x"}

Init ==
    /\ pc = "read"
    /\ full_text \in SeqsUpTo(DocAlphabet, MaxDoc)
    /\ fields = None
    /\ IdleNorm /\ IdleLabel /\ IdleLogin

\* "fields = extract_fields_from_pdf(tmp_path)"
Extract ==
    /\ pc = "read"
    /\ fields' = extract_fields_from_pdf(full_text)
    /\ pc' = "extracted"
    /\ UNCHANGED <<full_text, normVars, labelVars, loginVars>>

\* the "Validação" try/except: the derived fields are added to the record
Validate ==
    /\ pc = "extracted"
    /\ fields' = Balance(fields) @@ fields
    /\ pc' = "validated"
    /\ UNCHANGED <<full_text, normVars, labelVars, loginVars>>

Next == Extract \/ Validate

Spec == Init /\ [][Next]_vars

(***************************************************************************)
(* SpecDates: the same run on documents made of reading-date labels,       *)
(* dates, an interval count and line breaks, one space between tokens.     *)
(***************************************************************************)
DateTokens == {"LEITURA ANTERIOR", "LEITURA ATUAL", "05/11/2025", "08/12/2025", "3", "\n"}

RECURSIVE JoinTokens(_)
JoinTokens(tk) ==
    IF Len(tk) = 0 THEN <<>>
    ELSE IF Len(tk) = 1 THEN tk
    ELSE <<tk[1], " ">> \o JoinTokens(Tail(tk))

InitDates ==
    /\ pc = "read"
    /\ full_text \in {JoinTokens(tk) : tk \in SeqsUpTo(DateTokens, MaxTokens)}
    /\ fields = None
    /\ IdleNorm /\ IdleLabel /\ IdleLogin

SpecDates == InitDates /\ [][Next]_vars

(***************************************************************************)
(* SpecCheck: the validation on every record the orchestrator can return:  *)
(* each quartet value an integer or None, not all four None.               *)
(***************************************************************************)
KwhValues == {None} \cup {Some(n) : n \in 0..MaxKwh}

Records ==
    {f \in [RecordKeys -> KwhValues] :
        /\ f[K_LEIT_ANT] = None /\ f[K_LEIT_ATU] = None
        /\ \E k \in Quartet : f[k] # None}

InitCheck ==
    /\ pc = "extracted"
    /\ full_text = <<>>
    /\ fields \in Records
    /\ IdleNorm /\ IdleLabel /\ IdleLogin

NextCheck == Validate

SpecCheck == InitCheck /\ [][NextCheck]_vars

(***************************************************************************)
(* SpecLogin: one browser session of app.py.  Every interaction runs the   *)
(* script from the top: require_login, the guard that stops the script,    *)
(* then the page with the "Sair" button and the uploader.                  *)
(***************************************************************************)
\* str.lower() for the characters used
LowerChar(c) == IF c = "A" THEN "a" ELSE c
Lower(s) == [i \in 1..Len(s) |-> LowerChar(s[i])]

\* hmac.compare_digest on two str: TypeError unless both are ASCII
NonAscii == {"é"}
HasNonAscii(s) == \E i \in 1..Len(s) : s[i] \in NonAscii
compare_digest(a, b) ==
    IF HasNonAscii(a) \/ HasNonAscii(b) THEN Raise
    ELSE IF a = b THEN Some(TRUE) ELSE Some(FALSE)

\* the 'if st.button("Entrar")' block of require_login: "ok" sets
\* logged_in and reruns, "invalid" shows the error, "raise" ends the run
require_login(e, p, cfg_email, cfg_password) ==
    LET email_ok == compare_digest(Lower(Strip(e)), Lower(Strip(cfg_email)))
        pass_ok == compare_digest(p, cfg_password)
    IN  IF email_ok = Raise \/ pass_ok = Raise THEN "raise"
        ELSE IF email_ok.val /\ pass_ok.val THEN "ok"
        ELSE "invalid"

\* what a script run renders: the login form and st.stop(), or the page
Render(li) == IF li THEN "app" ELSE "login"

EmailInputs == SeqsUpTo({"a", "A", " ", "é"}, 2)
PasswordInputs == SeqsUpTo({"p", "é"}, 1)

InitLogin ==
    /\ pc = "start"
    /\ allowed_email \in {<<>>, <<"a">>, <<"A", " ">>}
    /\ allowed_password \in {<<>>, <<"p">>}
    /\ logged_in = FALSE
    /\ email = <<>> /\ password = <<>>
    /\ section = "none"
    /\ IdleNorm /\ IdleLabel /\ IdleExt

\* a script run with no button pressed
Rerun ==
    /\ section' = Render(logged_in)
    /\ pc' = "rerun"
    /\ UNCHANGED <<allowed_email, allowed_password, logged_in, email, password,
                   normVars, labelVars, extVars>>

\* "Entrar" pressed on the login form with e and p typed in
Entrar ==
    /\ section = "login"
    /\ \E e \in EmailInputs, p \in PasswordInputs :
        /\ email' = e
        /\ password' = p
        /\ logged_in' = (require_login(e, p, allowed_email, allowed_password) = "ok")
        /\ section' = Render(logged_in')
    /\ pc' = "Entrar"
    /\ UNCHANGED <<allowed_email, allowed_password, normVars, labelVars, extVars>>

\* "Sair" pressed on the page: logout_button clears the flag and reruns
Sair ==
    /\ section \in {"app", "upload"}
    /\ logged_in
    /\ logged_in' = FALSE
    /\ section' = Render(logged_in')
    /\ pc' = "Sair"
    /\ UNCHANGED <<allowed_email, allowed_password, email, password,
                   normVars, labelVars, extVars>>

\* files uploaded on the page: the run reaches "if uploaded_files:" only
\* past the guard
Upload ==
    /\ section \in {"app", "upload"}
    /\ section' = IF logged_in THEN "upload" ELSE "login"
    /\ pc' = "Upload"
    /\ UNCHANGED <<allowed_email, allowed_password, logged_in, email, password,
                   normVars, labelVars, extVars>>

NextLogin == Rerun \/ Entrar \/ Sair \/ Upload

SpecLogin == InitLogin /\ [][NextLogin]_vars

(***************************************************************************)
(* Claims about the value normalizers.                                     *)
(***************************************************************************)
\* a typed value or None, never an exception
IsIntOrNone(x) == x = None \/ (IsSome(x) /\ x.val \in Nat)
IsFloatOrNone(x) == x = None \/ (IsSome(x) /\ x.val.num \in Nat /\ x.val.scale \in Nat)

HasComma(r) == r # None /\ Count(r.val, ",") > 0

\* the digits of the text before its first comma
DigitsBeforeComma(r) == OnlyDigits(SplitFirst(r.val, ","))

\* C7: on a text holding a comma, normalize_kwh returns the integer written by
\* the digits before the first comma (spaces, periods and every other character
\* dropped, the decimals truncated), and None when no digit stands there.
C7_KwhTruncatesAtComma ==
    (pc \in {"kwh_done", "norm_done"} /\ HasComma(raw)) =>
        kwh = IF DigitsBeforeComma(raw) = <<>> THEN None
              ELSE Some(PyInt(DigitsBeforeComma(raw)))

\* "7,7" is 7: not rounded to 8, and the decimals are not kept
C7_Witness ==
    /\ pc = "kwh_done"
    /\ raw = Some(<<"7", ",", "7">>)
    /\ kwh = Some(7)

(***************************************************************************)
(* Claim about the anti-concatenation guard.                               *)
(***************************************************************************)
\* C3: with two numbers written one right after the other behind the label,
\* extract_kwh_after_label returns the value of the first number alone.
C3_FirstNumberOnly ==
    pc = "label_done" => saldo = normalize_kwh(Some(num1))

(***************************************************************************)
(* Claims about the net-metering quartet.                                  *)
(***************************************************************************)
Extracted == pc \in {"extracted", "validated"}

\* every quartet field holds the number found after its own label
AllRecognized ==
    \A k \in Quartet :
        /\ extract_kwh_after_label(full_text, LabelOf(k)) # None
        /\ fields[k] = extract_kwh_after_label(full_text, LabelOf(k))

AllZero == \A k \in Quartet : fields[k] = Some(0)

\* C1: the record of the orchestrator has the four quartet fields either all
\* recognized by their labels or all zero, never some present and some absent.
C1_QuartetAllOrNothing == Extracted => (AllRecognized \/ AllZero)

\* a number follows the label at i: a digit after it with only whitespace,
\* ":" and "." in between
FollowedByNumber(t, i) ==
    \E j \in (i + 1)..Len(t) :
        /\ t[j] \in Digits
        /\ \A k \in (i + 1)..(j - 1) : t[k] \in Whitespace \cup {":", "."}

NoNetMeteringSection(t) ==
    \A i \in 1..Len(t) : t[i] \in {LabelOf(k) : k \in Quartet} => ~FollowedByNumber(t, i)

\* C6: for a document in which no quartet label is followed by a number, the
\* four balance fields of the record are all zero.
C6_NoSectionAllZero == (Extracted /\ NoNetMeteringSection(full_text)) => AllZero

\* a label with text, not a number, behind it, and a number elsewhere
C6_Witness ==
    /\ pc = "extracted"
    /\ full_text = <<"1", "INJETADO", "x", "1">>
    /\ AllZero

(***************************************************************************)
(* Claims about the balance validation.                                    *)
(***************************************************************************)
\* C2: when a quartet value of the record is absent, the validation ends in
\* the failure marker: CHECK SALDO = ERRO, no calculated balance, no difference.
C2_AbsentInputIsError ==
    (pc = "validated" /\ \E k \in Quartet : fields[k] = None) =>
        /\ fields[K_CHECK] = "ERRO"
        /\ fields[K_CALC] = None
        /\ fields[K_DIF] = None

\* C5: for a record whose four quartet values are integers, the validation
\* appends calculated = prior + injected - compensated, difference = extracted
\* current - calculated, and OK exactly when the two balances are equal,
\* DIVERGENTE otherwise.
C5_BalanceArithmetic ==
    (pc = "validated" /\ \A k \in Quartet : IsSome(fields[k])) =>
        LET expected == fields[K_SALDO_ANT].val + fields[K_INJ].val - fields[K_COMP].val
        IN  /\ fields[K_CALC] = Some(expected)
            /\ fields[K_DIF] = Some(fields[K_SALDO_ATU].val - expected)
            /\ fields[K_CHECK] \in {"OK", "DIVERGENTE"}
            /\ fields[K_CHECK] = "OK" <=> fields[K_SALDO_ATU].val = expected
            /\ fields[K_CHECK] = "OK" <=> fields[K_DIF] = Some(0)

\* 1 + 2 - 0 = 3 against an extracted balance of 1: DIVERGENTE, difference -2
C5_Witness ==
    /\ pc = "validated"
    /\ fields[K_SALDO_ANT] = Some(1) /\ fields[K_INJ] = Some(2)
    /\ fields[K_COMP] = Some(0) /\ fields[K_SALDO_ATU] = Some(1)
    /\ fields[K_CALC] = Some(3) /\ fields[K_DIF] = Some(-2)
    /\ fields[K_CHECK] = "DIVERGENTE"

(***************************************************************************)
(* Claim about the reading dates.                                          *)
(***************************************************************************)
NoLeituraLabel(t) == \A i \in 1..Len(t) : t[i] \notin {"LEITURA ANTERIOR", "LEITURA ATUAL"}

\* C9: each reading date keeps its label-anchored result when there is one
\* and takes the block pattern's date (first = prior, second = current) only
\* when its own label search found nothing; without labels the block decides
\* both, and without labels and block both are absent.
C9_ReadingDates ==
    Extracted =>
        LET tn == clean_spaces(full_text)
            la == extract_first_date_after("LEITURA ANTERIOR", tn)
            lat == extract_first_date_after("LEITURA ATUAL", tn)
            fb == extract_leituras_por_bloco(tn)
        IN  /\ la # None => fields[K_LEIT_ANT] = la
            /\ lat # None => fields[K_LEIT_ATU] = lat
            /\ la = None => fields[K_LEIT_ANT] = fb[1]
            /\ lat = None => fields[K_LEIT_ATU] = fb[2]
            /\ NoLeituraLabel(full_text) =>
                  fields[K_LEIT_ANT] = fb[1] /\ fields[K_LEIT_ATU] = fb[2]
            /\ (NoLeituraLabel(full_text) /\ fb = <<None, None>>) =>
                  fields[K_LEIT_ANT] = None /\ fields[K_LEIT_ATU] = None

\* the current date has a label, the prior date has none: the label's date is
\* kept although the block's second date differs, and the block gives the prior
C9_Witness ==
    /\ pc = "extracted"
    /\ full_text = JoinTokens(<<"LEITURA ATUAL", "05/11/2025", "08/12/2025", "3", "05/11/2025">>)
    /\ fields[K_LEIT_ANT] = Some("05/11/2025")
    /\ fields[K_LEIT_ATU] = Some("05/11/2025")
    /\ extract_leituras_por_bloco(full_text)[2] = Some("08/12/2025")

(***************************************************************************)
(* Claim about the login gate.                                             *)
(***************************************************************************)
\* the submission equals configured, non-empty credentials
MatchesConfigured(e, p) ==
    /\ allowed_email # <<>>
    /\ allowed_password # <<>>
    /\ Lower(Strip(e)) = Lower(Strip(allowed_email))
    /\ p = allowed_password

\* C10: the page and the upload section run only while logged_in holds;
\* logged_in turns true only on an "Entrar" submission whose email (trimmed,
\* case-insensitive) and password equal configured, non-empty credentials;
\* "Sair" turns it false.
C10_LoginGate ==
    [][/\ section' \in {"app", "upload"} => logged_in'
       /\ (~logged_in /\ logged_in') => (pc' = "Entrar" /\ MatchesConfigured(email', password'))
       /\ pc' = "Sair" => ~logged_in']_vars

====
